---- MODULE Spec2Model ----
(***************************************************************************)
(* Model of app.py: a Flask service that loads books.csv into a pandas     *)
(* DataFrame at import time and serves /, /random and /mood from it.       *)
(*                                                                         *)
(* Text is a sequence of one-character strings, so that strip(), lower()   *)
(* and astype(str) are computed character by character.                    *)
(* DataFrame semantics are those of pandas 1.x/2.x with object-dtype text  *)
(* columns; JSON encoding is Flask's default provider.                     *)
(***************************************************************************)
EXTENDS Naturals, Sequences, FiniteSets, TLC

VARIABLES
    file,       \* the content of CSV_PATH on disk (never written by the program)
    pc,         \* position of the process: "start", "loaded", "serving", "failed"
    BOOKS_DF,   \* the module-level table
    loads,      \* how many times load_books() has been called in this process
    slot        \* per client: the request in flight or the response it received

vars == <<file, pc, BOOKS_DF, loads, slot>>

(***************************************************************************)
(* Bounds of the model.                                                    *)
(***************************************************************************)
MaxRows == 2

Clients == {"c1", "c2"}

(***************************************************************************)
(* Text helpers.                                                           *)
(***************************************************************************)
UpperLetters == <<"A","B","C","D","E","F","G","H","I","J","K","L","M",
                  "N","O","P","Q","R","S","T","U","V","W","X","Y","Z">>
LowerLetters == <<"a","b","c","d","e","f","g","h","i","j","k","l","m",
                  "n","o","p","q","r","s","t","u","v","w","x","y","z">>

Whitespace == {" ", "\t"}

DigitChars == <<"0","1","2","3","4","5","6","7","8","9">>

UpperSet == {UpperLetters[i] : i \in 1..Len(UpperLetters)}

LowerOf ==
    [c \in UpperSet |->
        LowerLetters[CHOOSE i \in 1..Len(UpperLetters) : UpperLetters[i] = c]]

\* str.lower() on one character
LowerChar(c) == IF c \in UpperSet THEN LowerOf[c] ELSE c

\* str.lower()
lower(s) == [i \in 1..Len(s) |-> LowerChar(s[i])]

RECURSIVE lstrip(_)
lstrip(s) ==
    IF s # <<>> /\ Head(s) \in Whitespace THEN lstrip(Tail(s)) ELSE s

RECURSIVE rstrip(_)
rstrip(s) ==
    IF s # <<>> /\ s[Len(s)] \in Whitespace
    THEN rstrip(SubSeq(s, 1, Len(s) - 1))
    ELSE s

\* str.strip()
strip(s) == rstrip(lstrip(s))

DigitSet == {DigitChars[i] : i \in 1..Len(DigitChars)}

DigitVal(c) == (CHOOSE i \in 1..Len(DigitChars) : DigitChars[i] = c) - 1

RECURSIVE ParseInt(_)
ParseInt(s) ==
    IF s = <<>> THEN 0
    ELSE 10 * ParseInt(SubSeq(s, 1, Len(s) - 1)) + DigitVal(s[Len(s)])

RECURSIVE IntToStr(_)
IntToStr(n) ==
    IF n < 10 THEN <<DigitChars[n + 1]>>
    ELSE Append(IntToStr(n \div 10), DigitChars[(n % 10) + 1])

(***************************************************************************)
(* Cells of a DataFrame: Python str, float NaN, numpy.int64, numpy.float64 *)
(* (a float64 cell holds an integral value n here, printed "n.0").         *)
(***************************************************************************)
StrCell(s)   == [kind |-> "str",   s |-> s,    n |-> 0]
NaN          == [kind |-> "nan",   s |-> <<>>, n |-> 0]
IntCell(n)   == [kind |-> "int",   s |-> <<>>, n |-> n]
FloatCell(n) == [kind |-> "float", s |-> <<>>, n |-> n]

\* Series.astype(str) on one cell
AsStr(cell) ==
    CASE cell.kind = "str"   -> cell.s
      [] cell.kind = "nan"   -> <<"n","a","n">>
      [] cell.kind = "int"   -> IntToStr(cell.n)
      [] cell.kind = "float" -> IntToStr(cell.n) \o <<".","0">>

(***************************************************************************)
(* Column names.                                                           *)
(***************************************************************************)
ColTitle   == <<"t","i","t","l","e">>
ColAuthor  == <<"a","u","t","h","o","r">>
ColGenre   == <<"g","e","n","r","e">>
ColMoodTag == <<"m","o","o","d","_","t","a","g">>
ColEnergy  == <<"e","n","e","r","g","y">>
ColNotes   == <<"n","o","t","e","s">>

\* line 18
required_cols == {ColTitle, ColAuthor, ColGenre, ColMoodTag, ColEnergy, ColNotes}

(***************************************************************************)
(* pd.read_csv: the values read_csv treats as missing, and the dtype it    *)
(* infers for a column from all of the column's cells.                     *)
(***************************************************************************)
NaValues == {<<>>, <<"N","A">>, <<"n","a","n">>, <<"N","a","N">>}

IsNA(raw) == raw \in NaValues

IsIntLiteral(raw) == raw # <<>> /\ \A i \in 1..Len(raw) : raw[i] \in DigitSet

ColumnRaws(f, j) == {f.rows[i][j] : i \in 1..Len(f.rows)}

ColumnDtype(f, j) ==
    LET raws == ColumnRaws(f, j) IN
    IF raws = {} THEN "object"
    ELSE IF \A raw \in raws : IsNA(raw) THEN "float64"
    ELSE IF \A raw \in raws : IsNA(raw) \/ IsIntLiteral(raw)
         THEN IF \E raw \in raws : IsNA(raw) THEN "float64" ELSE "int64"
    ELSE "object"

ParseCell(dtype, raw) ==
    IF IsNA(raw) THEN NaN
    ELSE IF dtype = "int64" THEN IntCell(ParseInt(raw))
    ELSE IF dtype = "float64" THEN FloatCell(ParseInt(raw))
    ELSE StrCell(raw)

\* line 15: the DataFrame of a file read_csv can parse
read_csv(f) ==
    [loaded  |-> TRUE,
     columns |-> f.header,
     rows    |-> [i \in 1..Len(f.rows) |->
                    [j \in 1..Len(f.header) |->
                        ParseCell(ColumnDtype(f, j), f.rows[i][j])]]]

NotLoaded == [loaded |-> FALSE, columns |-> <<>>, rows |-> <<>>]

\* line 17 without strip(): c.lower() only
NormalizeColumns_NoStrip(columns) ==
    [j \in 1..Len(columns) |-> lower(columns[j])]

\* line 17
NormalizeColumns(columns) ==
    [j \in 1..Len(columns) |-> lower(strip(columns[j]))]

ColumnSet(df) == {df.columns[j] : j \in 1..Len(df.columns)}

\* lines 14-22: the outcome of load_books() on the file at CSV_PATH
load_books(f) ==
    IF f.kind # "csv"
    THEN [ok |-> FALSE, error |-> "read_csv", df |-> NotLoaded]
    ELSE LET raw == read_csv(f)
             df  == [raw EXCEPT !.columns = NormalizeColumns(raw.columns)]
             missing == required_cols \ ColumnSet(df)
         IN  IF missing # {}
             THEN [ok |-> FALSE, error |-> "ValueError", df |-> NotLoaded]
             ELSE [ok |-> TRUE, error |-> "", df |-> df]

(***************************************************************************)
(* Selector.  A pick is the set of results the call can produce: sample(1) *)
(* draws any row of the frame it is called on.                             *)
(***************************************************************************)
None == [kind |-> "none", name |-> 0, values |-> <<>>]

\* an exception propagating out of the call
Raised == [kind |-> "raise", name |-> 0, values |-> <<>>]

\* df.iloc[...]: the row with index label i, as a Series
RowSeries(df, i) == [kind |-> "row", name |-> i, values |-> df.rows[i]]

\* the positions of the columns labelled label
ColPositions(df, label) ==
    {j \in 1..Len(df.columns) : df.columns[j] = label}

\* lines 26-29 without the df.empty test: sample(1) of an empty frame raises
pick_random_NoEmptyCheck(df) ==
    IF Len(df.rows) = 0
    THEN {Raised}
    ELSE {RowSeries(df, i) : i \in 1..Len(df.rows)}

\* lines 26-29
pick_random(df) ==
    IF Len(df.rows) = 0
    THEN {None}
    ELSE {RowSeries(df, i) : i \in 1..Len(df.rows)}

\* line 32 with the tag compared as given: ... == mood_tag
MoodSubset_TagAsGiven(df, j, mood_tag) ==
    {i \in 1..Len(df.rows) : lower(AsStr(df.rows[i][j])) = mood_tag}

\* line 32: the index labels of the rows kept by the boolean mask
MoodSubset(df, j, mood_tag) ==
    LET wanted == lower(mood_tag) IN
    {i \in 1..Len(df.rows) : lower(AsStr(df.rows[i][j])) = wanted}

\* lines 31-35.  df["mood_tag"] is a Series only when exactly one column
\* carries that label: with none it raises KeyError, with several it is a
\* DataFrame, which has no .str accessor (AttributeError).
pick_by_mood(df, mood_tag) ==
    LET ps == ColPositions(df, ColMoodTag) IN
    IF Cardinality(ps) # 1
    THEN {Raised}
    ELSE LET subset == MoodSubset(df, CHOOSE j \in ps : TRUE, mood_tag) IN
         IF subset = {}
         THEN {None}
         ELSE {RowSeries(df, i) : i \in subset}

(***************************************************************************)
(* HTTP router.                                                            *)
(***************************************************************************)
Response(status, body) == [status |-> status, body |-> body]

ErrorBody(code) == [error |-> code]

\* Flask's answer to an exception escaping a view function
InternalServerError == Response(500, ErrorBody("internal_server_error"))

\* book[label] on a row Series: the cell when one column carries the label,
\* KeyError with none, a Series of the cells with several
GetItem(df, book, label) ==
    LET ps == ColPositions(df, label) IN
    IF Cardinality(ps) = 1 THEN book.values[CHOOSE j \in ps : TRUE]
    ELSE IF ps = {} THEN [kind |-> "keyerror", s |-> <<>>, n |-> 0]
    ELSE [kind |-> "series", s |-> <<>>, n |-> 0]

\* lines 46-53 and 63-70: the dict handed to jsonify
BookDict(df, book) ==
    [title  |-> GetItem(df, book, ColTitle),
     author |-> GetItem(df, book, ColAuthor),
     genre  |-> GetItem(df, book, ColGenre),
     mood   |-> GetItem(df, book, ColMoodTag),
     energy |-> GetItem(df, book, ColEnergy),
     notes  |-> GetItem(df, book, ColNotes)]

BookKeys == {"title", "author", "genre", "mood", "energy", "notes"}

\* What Flask's default JSON provider encodes: str and float (numpy.float64
\* is a float, NaN included); numpy.int64 and Series raise TypeError.
JsonSerializable(cell) == cell.kind \in {"str", "nan", "float"}

\* jsonify(dict) of a book
jsonify(d) ==
    IF \E k \in BookKeys : d[k].kind = "keyerror" THEN InternalServerError
    ELSE IF \A k \in BookKeys : JsonSerializable(d[k]) THEN Response(200, d)
    ELSE InternalServerError

\* the local variable book before a pick has been made
NotCalled == [kind |-> "notcalled", name |-> 0, values |-> <<>>]

\* the outcome of a view function: the pick it made and the response it gave
Outcome(book, resp) == [book |-> book, resp |-> resp]

\* lines 44-53 and 61-70: the response built from a pick
BookResponse(df, book, not_found) ==
    IF book.kind = "none" THEN Response(404, ErrorBody(not_found))
    ELSE IF book.kind = "raise" THEN InternalServerError
    ELSE jsonify(BookDict(df, book))

\* lines 37-39
health == {Outcome(NotCalled, Response(200, [status |-> "ok"]))}

\* lines 41-53: what random_book() can do
random_book(df) ==
    IF ~df.loaded THEN {Outcome(NotCalled, InternalServerError)}
    ELSE {Outcome(book, BookResponse(df, book, "no_books")) :
            book \in pick_random(df)}

\* request.args.get("tag"): an absent parameter is has_tag = FALSE
NoTag == [has_tag |-> FALSE, tag |-> <<>>]

Tag(t) == [has_tag |-> TRUE, tag |-> t]

\* lines 55-70 with the test of line 58 written "if mood is None"
mood_book_NoneOnly(df, mood) ==
    IF ~mood.has_tag
    THEN {Outcome(NotCalled, Response(400, ErrorBody("missing_tag_param")))}
    ELSE IF ~df.loaded THEN {Outcome(NotCalled, InternalServerError)}
    ELSE {Outcome(book, BookResponse(df, book, "no_books_for_mood")) :
            book \in pick_by_mood(df, mood.tag)}

\* lines 55-70: what mood_book() can do
mood_book(df, mood) ==
    IF ~mood.has_tag \/ mood.tag = <<>>
    THEN {Outcome(NotCalled, Response(400, ErrorBody("missing_tag_param")))}
    ELSE IF ~df.loaded THEN {Outcome(NotCalled, InternalServerError)}
    ELSE {Outcome(book, BookResponse(df, book, "no_books_for_mood")) :
            book \in pick_by_mood(df, mood.tag)}

\* a view function that consumes the row it serves (df.drop(..., inplace=True))
TableAfterRequest_Drop(df, req) ==
    IF req.route # "/" /\ df.loaded /\ Len(df.rows) > 0
    THEN [df EXCEPT !.rows = Tail(@)]
    ELSE df

\* No view function assigns to BOOKS_DF or calls a mutating DataFrame method
\* (lines 26-70): the table a request leaves behind
TableAfterRequest(df, req) == df

(***************************************************************************)
(* The files the model is run on: headers and rows of books.csv.           *)
(***************************************************************************)
Column(name, field) == [name |-> name, field |-> field]

HeaderPlain ==
    <<Column(ColTitle, "title"), Column(ColAuthor, "author"),
      Column(ColGenre, "genre"), Column(ColMoodTag, "mood_tag"),
      Column(ColEnergy, "energy"), Column(ColNotes, "notes")>>

\* " Title ", "AUTHOR", "Genre", "Mood_Tag", "energy ", "\tNOTES", "Shelf"
HeaderStyled ==
    <<Column(<<" ","T","i","t","l","e"," ">>, "title"),
      Column(<<"A","U","T","H","O","R">>, "author"),
      Column(<<"G","e","n","r","e">>, "genre"),
      Column(<<"M","o","o","d","_","T","a","g">>, "mood_tag"),
      Column(<<"e","n","e","r","g","y"," ">>, "energy"),
      Column(<<"\t","N","O","T","E","S">>, "notes"),
      Column(<<"S","h","e","l","f">>, "shelf")>>

\* no genre column
HeaderNoGenre ==
    <<Column(ColTitle, "title"), Column(ColAuthor, "author"),
      Column(ColMoodTag, "mood_tag"), Column(ColEnergy, "energy"),
      Column(ColNotes, "notes")>>

\* "mood tag": whitespace inside a name is not normalized away
HeaderInnerSpace ==
    <<Column(ColTitle, "title"), Column(ColAuthor, "author"),
      Column(ColGenre, "genre"),
      Column(<<"m","o","o","d"," ","t","a","g">>, "mood_tag"),
      Column(ColEnergy, "energy"), Column(ColNotes, "notes")>>

\* "mood_tag" and "Mood_Tag": two names that normalize to the same label
HeaderTwoMoods ==
    <<Column(ColTitle, "title"), Column(ColAuthor, "author"),
      Column(ColGenre, "genre"), Column(ColMoodTag, "mood_tag"),
      Column(ColEnergy, "energy"), Column(ColNotes, "notes"),
      Column(<<"M","o","o","d","_","T","a","g">>, "shelf")>>

Headers ==
    {HeaderPlain, HeaderStyled, HeaderNoGenre, HeaderInnerSpace, HeaderTwoMoods}

Dune ==
    [title    |-> <<"D","u","n","e">>,
     author   |-> <<"H","e","r","b","e","r","t">>,
     genre    |-> <<"S","c","i","F","i">>,
     mood_tag |-> <<"E","p","i","c">>,
     energy   |-> <<"H","i","g","h">>,
     notes    |-> <<"C","l","a","s","s","i","c">>,
     shelf    |-> <<"A">>]

\* no mood_tag, a numeric energy, notes "NA"
Ubik ==
    [title    |-> <<"U","b","i","k">>,
     author   |-> <<"D","i","c","k">>,
     genre    |-> <<"S","c","i","F","i">>,
     mood_tag |-> <<>>,
     energy   |-> <<"3">>,
     notes    |-> <<"N","A">>,
     shelf    |-> <<"A">>]

\* a numeric mood_tag and a numeric energy
Solaris ==
    [title    |-> <<"S","o","l","a","r","i","s">>,
     author   |-> <<"L","e","m">>,
     genre    |-> <<"S","c","i","F","i">>,
     mood_tag |-> <<"7">>,
     energy   |-> <<"1","0">>,
     notes    |-> <<"S","l","o","w">>,
     shelf    |-> <<"C">>]

FileBooks == {Dune, Ubik, Solaris}

BookSeqs == UNION {[1..n -> FileBooks] : n \in 0..MaxRows}

CsvFile(h, books) ==
    [kind   |-> "csv",
     header |-> [j \in 1..Len(h) |-> h[j].name],
     rows   |-> [i \in 1..Len(books) |->
                    [j \in 1..Len(h) |-> books[i][h[j].field]]]]

\* a file read_csv raises on: missing, unreadable, empty or unparseable
Unreadable == [kind |-> "unreadable", header |-> <<>>, rows |-> <<>>]

Files == {Unreadable} \cup {CsvFile(h, b) : h \in Headers, b \in BookSeqs}

(***************************************************************************)
(* Requests.                                                               *)
(***************************************************************************)
Tags ==
    {<<>>,
     <<"E","p","i","c">>, <<"E","P","I","C">>, <<"E","p","i">>,
     <<"N","a","N">>, <<"7">>, <<"7",".","0">>}

Request(route, args) == [route |-> route, args |-> args]

Requests ==
    {Request("/", NoTag), Request("/random", NoTag), Request("/mood", NoTag)}
    \cup {Request("/mood", Tag(t)) : t \in Tags}

NoRequest == Request("", NoTag)

NoResponse == Response(0, ErrorBody(""))

Idle == [state |-> "idle", req |-> NoRequest, book |-> NotCalled, resp |-> NoResponse]

Pending(req) ==
    [state |-> "pending", req |-> req, book |-> NotCalled, resp |-> NoResponse]

Done(req, outcome) ==
    [state |-> "done", req |-> req, book |-> outcome.book, resp |-> outcome.resp]

(***************************************************************************)
(* The process.                                                            *)
(***************************************************************************)
Init ==
    /\ file \in Files
    /\ pc = "start"
    /\ BOOKS_DF = NotLoaded
    /\ loads = 0
    /\ slot = [c \in Clients |-> Idle]

\* line 24 with the load error swallowed (try/except around load_books())
Import_Swallow ==
    /\ pc = "start"
    /\ loads' = loads + 1
    /\ LET r == load_books(file) IN
       IF r.ok
       THEN BOOKS_DF' = r.df /\ pc' = "loaded"
       ELSE BOOKS_DF' = BOOKS_DF /\ pc' = "loaded"
    /\ UNCHANGED <<file, slot>>

\* line 24: BOOKS_DF = load_books() while the module is executed; an
\* exception ends the process before line 73 is reached
Import ==
    /\ pc = "start"
    /\ loads' = loads + 1
    /\ LET r == load_books(file) IN
       IF r.ok
       THEN BOOKS_DF' = r.df /\ pc' = "loaded"
       ELSE BOOKS_DF' = BOOKS_DF /\ pc' = "failed"
    /\ UNCHANGED <<file, slot>>

\* lines 72-73: app.run() starts accepting requests
Run ==
    /\ pc = "loaded"
    /\ pc' = "serving"
    /\ UNCHANGED <<file, BOOKS_DF, loads, slot>>

\* a client sends its request
Send(c, req) ==
    /\ slot[c].state = "idle"
    /\ slot' = [slot EXCEPT ![c] = Pending(req)]
    /\ UNCHANGED <<file, pc, BOOKS_DF, loads>>

Serve(c, outcome) ==
    /\ slot' = [slot EXCEPT ![c] = Done(slot[c].req, outcome)]
    /\ BOOKS_DF' = TableAfterRequest(BOOKS_DF, slot[c].req)
    /\ UNCHANGED <<file, pc, loads>>

Accepts(c, route) ==
    /\ pc = "serving"
    /\ slot[c].state = "pending"
    /\ slot[c].req.route = route

\* GET /
Health(c) ==
    /\ Accepts(c, "/")
    /\ \E o \in health : Serve(c, o)

\* GET /random
RandomBook(c) ==
    /\ Accepts(c, "/random")
    /\ \E o \in random_book(BOOKS_DF) : Serve(c, o)

\* GET /mood
MoodBook(c) ==
    /\ Accepts(c, "/mood")
    /\ \E o \in mood_book(BOOKS_DF, slot[c].req.args) : Serve(c, o)

Next ==
    \/ Import
    \/ Run
    \/ \E c \in Clients, req \in Requests : Send(c, req)
    \/ \E c \in Clients : Health(c)
    \/ \E c \in Clients : RandomBook(c)
    \/ \E c \in Clients : MoodBook(c)

Spec == Init /\ [][Next]_vars

(***************************************************************************)
(* Vocabulary of the properties, stated without lower() and strip().       *)
(***************************************************************************)
\* a letter in upper case and in lower case
LetterPairs == {{UpperLetters[i], LowerLetters[i]} : i \in 1..Len(UpperLetters)}

\* the same letter, in either case
SameLetter(a, b) == a = b \/ {a, b} \in LetterPairs

\* s and t differ at most in letter case
EqualIgnoringCase(s, t) ==
    /\ Len(s) = Len(t)
    /\ \A i \in 1..Len(s) : SameLetter(s[i], t[i])

\* raw is name in some letter case, surrounded by any whitespace
NormalizesTo(raw, name) ==
    \E lo \in 0..Len(raw) :
      LET hi == lo + Len(name) IN
        /\ hi <= Len(raw)
        /\ \A i \in 1..lo : raw[i] \in Whitespace
        /\ \A i \in (hi + 1)..Len(raw) : raw[i] \in Whitespace
        /\ EqualIgnoringCase(SubSeq(raw, lo + 1, hi), name)

HeaderHasAllRequired(f) ==
    \A name \in required_cols :
        \E j \in 1..Len(f.header) : NormalizesTo(f.header[j], name)

UpperCased(t) ==
    [i \in 1..Len(t) |->
        IF \E k \in 1..Len(LowerLetters) : LowerLetters[k] = t[i]
        THEN UpperLetters[CHOOSE k \in 1..Len(LowerLetters) : LowerLetters[k] = t[i]]
        ELSE t[i]]

LowerCased(t) ==
    [i \in 1..Len(t) |->
        IF \E k \in 1..Len(UpperLetters) : UpperLetters[k] = t[i]
        THEN LowerLetters[CHOOSE k \in 1..Len(UpperLetters) : UpperLetters[k] = t[i]]
        ELSE t[i]]

\* the tags of the model in the case given, in upper case and in lower case
TagVariants == Tags \cup {UpperCased(t) : t \in Tags} \cup {LowerCased(t) : t \in Tags}

\* the pairs of distinct tags that differ only in letter case
CasePairs ==
    {p \in Tags \X TagVariants : p[1] # p[2] /\ EqualIgnoringCase(p[1], p[2])}

RowIndex(df) == 1..Len(df.rows)

\* the mood_tag cells of row i (one per column labelled mood_tag)
MoodCells(df, i) == {df.rows[i][j] : j \in ColPositions(df, ColMoodTag)}

\* the rows whose mood_tag, as text, equals tag up to letter case
MatchingRows(df, tag) ==
    {i \in RowIndex(df) :
        \E cell \in MoodCells(df, i) : EqualIgnoringCase(AsStr(cell), tag)}

\* the cell of row i in a column labelled label
Field(df, i, label) == df.rows[i][CHOOSE j \in ColPositions(df, label) : TRUE]

\* the six fields of row i, mood carrying its mood_tag
BookBody(df, i) ==
    [title  |-> Field(df, i, ColTitle),
     author |-> Field(df, i, ColAuthor),
     genre  |-> Field(df, i, ColGenre),
     mood   |-> Field(df, i, ColMoodTag),
     energy |-> Field(df, i, ColEnergy),
     notes  |-> Field(df, i, ColNotes)]

Answered(c, route) == slot[c].state = "done" /\ slot[c].req.route = route

HasTag(c) == slot[c].req.args.has_tag /\ slot[c].req.args.tag # <<>>

(***************************************************************************)
(* C1: for every table and every tag, pick_by_mood returns None exactly    *)
(* when no row's mood_tag, as lowercased text, equals the lowercased tag;  *)
(* otherwise every row it can return is a row of the table whose mood_tag  *)
(* equals the tag up to letter case.                                       *)
(***************************************************************************)
C1_PickByMoodExactMatch ==
    BOOKS_DF.loaded =>
        \A t \in Tags :
            LET res == pick_by_mood(BOOKS_DF, t)
                matching == MatchingRows(BOOKS_DF, t)
            IN  /\ (None \in res) <=> (matching = {})
                /\ \A b \in res :
                     \/ b = None
                     \/ /\ b.kind = "row"
                        /\ b.name \in matching
                        /\ b.values = BOOKS_DF.rows[b.name]

(***************************************************************************)
(* C2: for a non-empty table pick_random returns a row that is a member of *)
(* the table; for a table with zero rows it returns None.                  *)
(***************************************************************************)
C2_PickRandomMembership ==
    \A c \in Clients :
        Answered(c, "/random") =>
            LET b == slot[c].book IN
            IF Len(BOOKS_DF.rows) = 0
            THEN b = None
            ELSE /\ b.kind = "row"
                 /\ b.name \in RowIndex(BOOKS_DF)
                 /\ b.values = BOOKS_DF.rows[b.name]

C2_Witness ==
    /\ Len(BOOKS_DF.rows) = 2
    /\ Answered("c1", "/random") /\ slot["c1"].book.name = 2
    /\ Answered("c2", "/random") /\ slot["c2"].book.name = 1

(***************************************************************************)
(* C3: GET /mood with the tag parameter absent or empty answers 400 with   *)
(* {"error": "missing_tag_param"} whatever the table holds.                *)
(***************************************************************************)
C3_MissingTagIs400 ==
    \A c \in Clients :
        Answered(c, "/mood") /\ ~HasTag(c) =>
            slot[c].resp = Response(400, ErrorBody("missing_tag_param"))

C3_Witness ==
    /\ Len(BOOKS_DF.rows) > 0
    /\ Answered("c1", "/mood") /\ ~slot["c1"].req.args.has_tag
    /\ Answered("c2", "/mood") /\ slot["c2"].req.args = Tag(<<>>)

(***************************************************************************)
(* C4: GET /mood with a non-empty tag answers 404 "no_books_for_mood"      *)
(* exactly when no row's mood_tag equals the tag up to letter case, and    *)
(* otherwise 200 with the six fields of one such row.                      *)
(***************************************************************************)
C4_MoodRouteAnswers ==
    \A c \in Clients :
        Answered(c, "/mood") /\ HasTag(c) =>
            LET matching == MatchingRows(BOOKS_DF, slot[c].req.args.tag) IN
            IF matching = {}
            THEN slot[c].resp = Response(404, ErrorBody("no_books_for_mood"))
            ELSE \E i \in matching :
                    slot[c].resp = Response(200, BookBody(BOOKS_DF, i))

(***************************************************************************)
(* C5: GET /random answers 404 "no_books" exactly when the table has no    *)
(* rows, and otherwise 200 with the six fields of one row of the table.    *)
(***************************************************************************)
C5_RandomRouteAnswers ==
    \A c \in Clients :
        Answered(c, "/random") =>
            IF Len(BOOKS_DF.rows) = 0
            THEN slot[c].resp = Response(404, ErrorBody("no_books"))
            ELSE \E i \in RowIndex(BOOKS_DF) :
                    slot[c].resp = Response(200, BookBody(BOOKS_DF, i))

(***************************************************************************)
(* C6: for a file read_csv can read, the load succeeds exactly when every  *)
(* required name occurs in the header up to letter case and surrounding    *)
(* whitespace.                                                             *)
(***************************************************************************)
C6_LoadIffHeaderComplete ==
    pc # "start" /\ file.kind = "csv" =>
        (pc # "failed" <=> HeaderHasAllRequired(file))

C6_Witness ==
    /\ pc = "serving"
    /\ file.kind = "csv"
    /\ file.header[1] = <<" ","T","i","t","l","e"," ">>
    /\ file.header[2] = <<"A","U","T","H","O","R">>

(***************************************************************************)
(* C7: no request is answered unless the load completed successfully       *)
(* before, the load happens once and before serving, and a failed load     *)
(* never leads to the serving state.                                       *)
(***************************************************************************)
C7_LoadOnceBeforeServing ==
    /\ loads <= 1
    /\ pc = "start" <=> loads = 0
    /\ pc \in {"loaded", "serving"} =>
          /\ file.kind = "csv"
          /\ BOOKS_DF.loaded
          /\ required_cols \subseteq ColumnSet(BOOKS_DF)
    /\ pc = "failed" => ~BOOKS_DF.loaded
    /\ \A c \in Clients :
          slot[c].state = "done" => pc = "serving" /\ loads = 1

C7_Witness ==
    /\ pc = "serving"
    /\ Answered("c1", "/") /\ Answered("c2", "/mood")

(***************************************************************************)
(* C8: once loaded, the table stays equal to the loaded table through      *)
(* every request, whatever its status and with requests interleaved.       *)
(***************************************************************************)
C8_TableNeverChanges ==
    pc \in {"loaded", "serving"} => BOOKS_DF = load_books(file).df

C8_Witness ==
    /\ slot["c1"].state = "done" /\ slot["c1"].resp.status = 404
    /\ slot["c2"].state = "done" /\ slot["c2"].resp.status = 200
    /\ slot["c2"].req.route = "/random"
    /\ Len(BOOKS_DF.rows) = 2

(***************************************************************************)
(* C9: for two tags that differ only in letter case pick_by_mood has the   *)
(* same set of possible results.                                           *)
(***************************************************************************)
C9_CaseInsensitiveCandidates ==
    BOOKS_DF.loaded =>
        \A p \in CasePairs :
            pick_by_mood(BOOKS_DF, p[1]) = pick_by_mood(BOOKS_DF, p[2])

C9_Witness ==
    /\ Answered("c1", "/mood") /\ slot["c1"].req.args = Tag(<<"E","p","i","c">>)
    /\ Answered("c2", "/mood") /\ slot["c2"].req.args = Tag(<<"E","P","I","C">>)
    /\ slot["c1"].book.kind = "row" /\ slot["c2"].book.kind = "row"
    /\ slot["c1"].book.name # slot["c2"].book.name
    /\ Len(BOOKS_DF.rows) = 2

(***************************************************************************)
(* C10: a row whose mood_tag cell is missing in the file is a candidate of *)
(* pick_by_mood, and can be returned by GET /mood, exactly when the tag    *)
(* equals "nan" up to letter case.                                         *)
(***************************************************************************)
MissingMoodInFile(i) ==
    \E j \in 1..Len(file.header) :
        /\ BOOKS_DF.columns[j] = ColMoodTag
        /\ IsNA(file.rows[i][j])

C10_MissingMoodMatchesNan ==
    BOOKS_DF.loaded =>
        \A i \in RowIndex(BOOKS_DF) :
            MissingMoodInFile(i) =>
                \A t \in Tags \ {<<>>} :
                    LET isNan == EqualIgnoringCase(t, <<"n","a","n">>) IN
                    /\ (\E b \in pick_by_mood(BOOKS_DF, t) :
                            b.kind = "row" /\ b.name = i) <=> isNan
                    /\ (\E o \in mood_book(BOOKS_DF, Tag(t)) :
                            /\ o.resp.status = 200
                            /\ o.book.name = i) <=> isNan

(***************************************************************************)
(* The properties C1, C4, C5 and C10 on the tables that avoid the two      *)
(* failures above: every required label on exactly one column, and no      *)
(* int64 cell in a required column.                                        *)
(***************************************************************************)
UniqueRequiredColumns ==
    \A name \in required_cols : Cardinality(ColPositions(BOOKS_DF, name)) = 1

NoIntegerField ==
    \A i \in RowIndex(BOOKS_DF), j \in 1..Len(BOOKS_DF.columns) :
        BOOKS_DF.columns[j] \in required_cols => BOOKS_DF.rows[i][j].kind # "int"

C1_OnUniqueColumns == UniqueRequiredColumns => C1_PickByMoodExactMatch

C4_OnEncodableTables ==
    UniqueRequiredColumns /\ NoIntegerField => C4_MoodRouteAnswers

C5_OnEncodableTables ==
    UniqueRequiredColumns /\ NoIntegerField => C5_RandomRouteAnswers

C10_OnEncodableTables ==
    UniqueRequiredColumns /\ NoIntegerField => C10_MissingMoodMatchesNan

====
